---------------------------- MODULE Spec2Model ----------------------------
(* Model of radiotools/coordinatesystems.py: class cstrafo.                *)
(*                                                                         *)
(* Numbers.  A float64 is modelled as an exact rational <<n, d>> in lowest *)
(* terms with d > 0; the IEEE specials are the pairs with d = 0:           *)
(* <<1,0>> = +inf, <<-1,0>> = -inf, <<0,0>> = nan.  Rounding is not        *)
(* modelled, so "equal" below is the exact counterpart of "equal within    *)
(* floating-point tolerance".  An integer-dtype array holds rationals with *)
(* denominator 1, and storing a float into it truncates toward zero, as    *)
(* numpy does.                                                             *)
(*                                                                         *)
(* Angles.  The code uses an input angle only through cos and sin, so an   *)
(* input angle is the pair [c, s] of its cosine and sine, drawn from the   *)
(* rational points of the unit circle.                                     *)
EXTENDS Integers, Sequences, FiniteSets, TLC

(***************************************************************************)
(* float64 arithmetic                                                      *)
(***************************************************************************)
Abs(n) == IF n < 0 THEN -n ELSE n

Sign(n) == IF n > 0 THEN 1 ELSE IF n < 0 THEN -1 ELSE 0

RECURSIVE GCD(_, _)
GCD(a, b) == IF b = 0 THEN a ELSE GCD(b, a % b)

Rat(n, d) ==
    IF d = 0 THEN <<Sign(n), 0>>
    ELSE LET g == GCD(Abs(n), Abs(d))
         IN  <<(Sign(d) * n) \div g, Abs(d) \div g>>

Num(n) == <<n, 1>>

NaN == <<0, 0>>

IsFinite(a) == a[2] # 0

RNeg(a) == <<-a[1], a[2]>>

RMul(a, b) ==
    LET g1 == GCD(Abs(a[1]), b[2])
        g2 == GCD(Abs(b[1]), a[2])
    IN  IF a[2] = 0 \/ b[2] = 0 THEN <<Sign(a[1]) * Sign(b[1]), 0>>
        ELSE <<(a[1] \div g1) * (b[1] \div g2), (a[2] \div g2) * (b[2] \div g1)>>

RAdd(a, b) ==
    IF a[2] = 0 /\ b[2] = 0
    THEN (IF a[1] = b[1] THEN a ELSE NaN)
    ELSE IF a[2] = 0 THEN a
    ELSE IF b[2] = 0 THEN b
    ELSE LET g == GCD(a[2], b[2])
         IN  Rat(a[1] * (b[2] \div g) + b[1] * (a[2] \div g), (a[2] \div g) * b[2])

RSub(a, b) == RAdd(a, RNeg(b))

RDiv(a, b) ==
    IF b[2] = 0 THEN (IF a[2] = 0 \/ b[1] = 0 THEN NaN ELSE Num(0))
    ELSE IF b[1] = 0 THEN <<Sign(a[1]), 0>>
    ELSE RMul(a, <<Sign(b[1]) * b[2], Abs(b[1])>>)

\* the integer square root, by Newton's iteration from above
RECURSIVE SqrtFrom(_, _)
SqrtFrom(n, x) ==
    LET y == (x + n \div x) \div 2
    IN  IF y >= x THEN x ELSE SqrtFrom(n, y)

ISqrt(n) == IF n = 0 THEN 0 ELSE SqrtFrom(n, n)

IsSquare(a) == a[1] >= 0 /\ ISqrt(a[1]) * ISqrt(a[1]) = a[1] /\ ISqrt(a[2]) * ISqrt(a[2]) = a[2]

RSqrt(a) == IF a[1] < 0 THEN NaN ELSE <<ISqrt(a[1]), ISqrt(a[2])>>

\* float -> int conversion on storing into an integer array: toward zero
Trunc(a) == Num(Sign(a[1]) * (Abs(a[1]) \div a[2]))

(***************************************************************************)
(* 3-vectors and 3x3 matrices (tuples; the source's 0-based indices are    *)
(* kept by At)                                                             *)
(***************************************************************************)
Dot3(u, v) == RAdd(RAdd(RMul(u[1], v[1]), RMul(u[2], v[2])), RMul(u[3], v[3]))

cross(u, v) ==
    << RSub(RMul(u[2], v[3]), RMul(u[3], v[2])),
       RSub(RMul(u[3], v[1]), RMul(u[1], v[3])),
       RSub(RMul(u[1], v[2]), RMul(u[2], v[1])) >>

VScale(k, u) == [i \in 1..3 |-> RMul(k, u[i])]

VDivS(u, k) == [i \in 1..3 |-> RDiv(u[i], k)]

RAbs(a) == <<Abs(a[1]), a[2]>>

\* a positive scale of u (the size of its first non-zero entry), 1 for the zero vector
Scale(u) ==
    IF \E i \in 1..3 : ~IsFinite(u[i]) THEN Num(1)
    ELSE IF u[1][1] # 0 THEN RAbs(u[1])
    ELSE IF u[2][1] # 0 THEN RAbs(u[2])
    ELSE IF u[3][1] # 0 THEN RAbs(u[3])
    ELSE Num(1)

\* |u / k|^2 for k = Scale(u): the squares are taken of the scaled entries, which
\* keeps the integers small
ScaledSquare(u) == Dot3(VDivS(u, Scale(u)), VDivS(u, Scale(u)))

\* linalg.norm: the Euclidean length, sqrt(sum of squares)
norm(u) == RMul(Scale(u), RSqrt(ScaledSquare(u)))

VAdd(u, v) == [i \in 1..Len(u) |-> RAdd(u[i], v[i])]

VSub(u, v) == [i \in 1..Len(u) |-> RSub(u[i], v[i])]

At(M, i, j) == M[i + 1][j + 1]

MatVec(M, u) == <<Dot3(M[1], u), Dot3(M[2], u), Dot3(M[3], u)>>

Transpose(M) == [i \in 1..3 |-> [j \in 1..3 |-> M[j][i]]]

MatMul(A, B) == [i \in 1..3 |-> [j \in 1..3 |-> Dot3(A[i], Transpose(B)[j])]]

Identity == <<<<Num(1), Num(0), Num(0)>>, <<Num(0), Num(1), Num(0)>>, <<Num(0), Num(0), Num(1)>>>>

Det(M) == Dot3(M[1], cross(M[2], M[3]))

\* np.linalg.inv: the inverse proper (adjugate over determinant), not the transpose
inv(M) ==
    LET d == Det(M)
        c1 == cross(M[2], M[3])
        c2 == cross(M[3], M[1])
        c3 == cross(M[1], M[2])
    IN  [i \in 1..3 |-> <<RDiv(c1[i], d), RDiv(c2[i], d), RDiv(c3[i], d)>>]

(***************************************************************************)
(* The helper module (radiotools/helper.py), which the class imports       *)
(***************************************************************************)
Cos(a) == a.c

Sin(a) == a.s

NegAngle(a) == [c |-> a.c, s |-> RNeg(a.s)]

spherical_to_cartesian(zenith, azimuth) ==
    << RMul(Sin(zenith), Cos(azimuth)), RMul(Sin(zenith), Sin(azimuth)), Cos(zenith) >>

None == <<>>

\* the site table: a stand-in field vector per site, the default site for None
get_magnetic_field_vector(site) ==
    IF site = "lofar" THEN <<Num(0), Num(3), Num(-4)>> ELSE <<Num(0), Num(4), Num(3)>>

\* The declination of a field vector is whatever angle the helper returns for it:
\* the constructor receives it as `declination`.

(***************************************************************************)
(* cstrafo.__init__                                                        *)
(***************************************************************************)
\* vBvvB_rows without `e3 /= linalg.norm(e3)`
vBvvB_rows_e3_unnormalised(showeraxis, magnetic_field_normalized) ==
    LET vxB == cross(showeraxis, magnetic_field_normalized)
        e1  == vxB
        e2  == cross(showeraxis, vxB)
        e3  == cross(e1, e2)
    IN  << VDivS(e1, norm(e1)), VDivS(e2, norm(e2)), e3 >>

vBvvB_rows(showeraxis, magnetic_field_normalized) ==
    LET vxB == cross(showeraxis, magnetic_field_normalized)
        e1  == vxB
        e2  == cross(showeraxis, vxB)
        e3  == cross(e1, e2)
    IN  << VDivS(e1, norm(e1)), VDivS(e2, norm(e2)), VDivS(e3, norm(e3)) >>

onsky_rows(zenith, azimuth) ==
    LET ct == Cos(zenith)
        st == Sin(zenith)
        cp == Cos(azimuth)
        sp == Sin(azimuth)
        e1 == << RMul(st, cp), RMul(st, sp), ct >>
        e2 == << RMul(ct, cp), RMul(ct, sp), RNeg(st) >>
        e3 == << RNeg(sp), cp, Num(0) >>
    IN  << e1, e2, e3 >>

magnetic_rows(declination) ==
    LET c  == Cos(NegAngle(declination))
        s  == Sin(NegAngle(declination))
        e1 == << c, RNeg(s), Num(0) >>
        e2 == << s, c, Num(0) >>
        e3 == << Num(0), Num(0), Num(1) >>
    IN  << e1, e2, e3 >>

ResolveField(magnetic_field_vector, site) ==
    IF magnetic_field_vector = None THEN get_magnetic_field_vector(site)
    ELSE magnetic_field_vector

cstrafo(zenith, azimuth, magnetic_field_vector, site, declination) ==
    LET showeraxis == VScale(Num(-1), spherical_to_cartesian(zenith, azimuth))
        mfv        == ResolveField(magnetic_field_vector, site)
        magnetic_field_normalized == VDivS(mfv, norm(mfv))
        vBvvB      == vBvvB_rows(showeraxis, magnetic_field_normalized)
        onsky      == onsky_rows(zenith, azimuth)
        magnetic   == magnetic_rows(declination)
    IN  [ transformation_matrix_vBvvB            |-> vBvvB,
          inverse_transformation_matrix_vBvvB    |-> inv(vBvvB),
          transformation_matrix_onsky            |-> onsky,
          inverse_transformation_matrix_onsky    |-> inv(onsky),
          transformation_matrix_magnetic         |-> magnetic,
          inverse_transformation_matrix_magnetic |-> inv(magnetic) ]

(***************************************************************************)
(* numpy arrays: [dtype, ndim, data].  ndim = 0: a scalar (data = <<x>>);  *)
(* ndim = 1: one vector; ndim = 2: a sequence of vectors.  dtype "None" is *)
(* Python's None, dtype "TypeError" a raised exception.                    *)
(***************************************************************************)
Arr(dtype, ndim, data) == [dtype |-> dtype, ndim |-> ndim, data |-> data]

NoneArr == Arr("None", 0, <<>>)

Raised(a) == a.dtype = "TypeError"

IsArray(a) == a.dtype \in {"int", "float"} /\ a.ndim \in {1, 2}

\* storing a float vector into an array of the given dtype (result[i] = temp)
Store(dtype, vec) == IF dtype = "int" THEN [i \in 1..Len(vec) |-> Trunc(vec[i])] ELSE vec

\* x -= core on a one-dimensional array or a row view.  An int array cannot hold a
\* float difference: numpy >= 1.10 raises TypeError (casting "same_kind"), older
\* releases truncate (casting "unsafe").
ISub(x, core, casting) ==
    IF x.dtype = "int" /\ core.dtype = "float"
    THEN IF casting = "same_kind" THEN Arr("TypeError", 0, <<>>)
         ELSE Arr("int", 1, Store("int", VSub(x.data, core.data)))
    ELSE Arr(x.dtype, 1, VSub(x.data, core.data))

(***************************************************************************)
(* cstrafo.__transform and the four transforms that use it                 *)
(***************************************************************************)
cstrafo__transform(positions, matrix) ==
    IF positions.ndim = 1
    THEN Arr("float", 1, MatVec(matrix, positions.data))
    ELSE Arr(positions.dtype, 2,
             [i \in 1..Len(positions.data) |->
                 Store(positions.dtype, MatVec(matrix, positions.data[i]))])

transform_from_ground_to_onsky(self, positions) ==
    cstrafo__transform(positions, self.transformation_matrix_onsky)

transform_from_onsky_to_ground(self, positions) ==
    cstrafo__transform(positions, self.inverse_transformation_matrix_onsky)

transform_from_magnetic_to_geographic(self, positions) ==
    cstrafo__transform(positions, self.transformation_matrix_magnetic)

transform_from_geographic_to_magnetic(self, positions) ==
    cstrafo__transform(positions, self.inverse_transformation_matrix_magnetic)

(***************************************************************************)
(* The shower-plane transforms.  Each returns the call's outcome: the      *)
(* result, and the contents of the caller's two arrays after the call.     *)
(* `ref` says which object the local name station_position is bound to.    *)
(***************************************************************************)
Outcome(result, station_position, core) ==
    [result |-> result, station_position |-> station_position, core |-> core]

to_vxB_ref(core) == IF core # NoneArr THEN "copy" ELSE "caller"

transform_to_vxB_vxvxB(self, station_position, core, casting) ==
    LET M   == self.transformation_matrix_vBvvB
        ref == to_vxB_ref(core)
        \* the object station_position is bound to, after the in-place subtractions
        obj == IF core = NoneArr THEN station_position
               ELSE IF station_position.ndim = 1 THEN ISub(station_position, core, casting)
               ELSE LET rows == [i \in 1..Len(station_position.data) |->
                                    ISub(Arr(station_position.dtype, 1, station_position.data[i]),
                                         core, casting)]
                    IN  IF \E i \in 1..Len(rows) : Raised(rows[i])
                        THEN Arr("TypeError", 0, <<>>)
                        ELSE Arr(station_position.dtype, 2, [i \in 1..Len(rows) |-> rows[i].data])
        result == IF Raised(obj) THEN obj
                  ELSE IF obj.ndim = 1 THEN Arr("float", 1, MatVec(M, obj.data))
                  ELSE Arr("float", 2, [i \in 1..Len(obj.data) |-> MatVec(M, obj.data[i])])
    IN  Outcome(result,
                IF ref = "caller" /\ ~Raised(obj) THEN obj ELSE station_position,
                core)

transform_from_vxB_vxvxB(self, station_position, core) ==
    LET Minv == self.inverse_transformation_matrix_vBvvB
        back(pos) == LET temp == MatVec(Minv, pos)
                     IN  IF core # NoneArr THEN VAdd(temp, core.data) ELSE temp
        result == IF station_position.ndim = 1
                  THEN Arr("float", 1, back(station_position.data))
                  ELSE Arr("float", 2, [i \in 1..Len(station_position.data) |->
                                           back(station_position.data[i])])
    IN  Outcome(result, station_position, core)

\* get_height_in_showerplane without the factor -1.
get_height_in_showerplane_unsigned(self, x, y) ==
    LET M == self.transformation_matrix_vBvvB
    IN  RDiv(RAdd(RMul(At(M, 0, 2), x), RMul(At(M, 1, 2), y)), At(M, 2, 2))

\* get_height_in_showerplane reading M[2,0], M[2,1] for M[0,2], M[1,2]
get_height_in_showerplane_transposed(self, x, y) ==
    LET M == self.transformation_matrix_vBvvB
    IN  RDiv(RMul(Num(-1), RAdd(RMul(At(M, 2, 0), x), RMul(At(M, 2, 1), y))), At(M, 2, 2))

get_height_in_showerplane(self, x, y) ==
    LET M == self.transformation_matrix_vBvvB
    IN  RDiv(RMul(Num(-1), RAdd(RMul(At(M, 0, 2), x), RMul(At(M, 1, 2), y))), At(M, 2, 2))

\* transform_from_vxB_vxvxB_2D applying the forward matrix for the inverse
transform_from_vxB_vxvxB_2D_forward(self, station_position, core) ==
    LET M == self.transformation_matrix_vBvvB
        back(pos) == LET position == <<pos[1], pos[2], get_height_in_showerplane(self, pos[1], pos[2])>>
                         result   == MatVec(M, position)
                     IN  IF core # NoneArr THEN VAdd(result, core.data) ELSE result
        result == IF station_position.ndim = 1
                  THEN Arr("float", 1, back(station_position.data))
                  ELSE Arr("float", 2, [i \in 1..Len(station_position.data) |->
                                           back(station_position.data[i])])
    IN  Outcome(result, station_position, core)

transform_from_vxB_vxvxB_2D(self, station_position, core) ==
    LET Minv == self.inverse_transformation_matrix_vBvvB
        back(pos) == LET position == <<pos[1], pos[2], get_height_in_showerplane(self, pos[1], pos[2])>>
                         result   == MatVec(Minv, position)
                     IN  IF core # NoneArr THEN VAdd(result, core.data) ELSE result
        result == IF station_position.ndim = 1
                  THEN Arr("float", 1, back(station_position.data))
                  ELSE Arr("float", 2, [i \in 1..Len(station_position.data) |->
                                           back(station_position.data[i])])
    IN  Outcome(result, station_position, core)

(***************************************************************************)
(* get_euler_angles.  An angle the code returns is [kind, y, x]:           *)
(* kind "atan2" is the angle of the direction (x, y), scaled so that       *)
(* |x| + |y| = 1 (atan2 depends on the direction alone); kind "asin" is    *)
(* the angle in [-pi/2, pi/2] whose sine is y.                             *)
(***************************************************************************)
Atan2(y, x) ==
    LET l == RAdd(RAbs(y), RAbs(x))
    IN  IF ~IsFinite(y) \/ ~IsFinite(x) THEN [kind |-> "atan2", y |-> NaN, x |-> NaN]
        ELSE IF l = Num(0) THEN [kind |-> "atan2", y |-> Num(0), x |-> Num(1)]
        ELSE [kind |-> "atan2", y |-> RDiv(y, l), x |-> RDiv(x, l)]

Asin(r) == [kind |-> "asin", y |-> r, x |-> Num(0)]

ZeroAngle == Atan2(Num(0), Num(1))

HalfPi == Atan2(Num(1), Num(0))

MinusHalfPi == Atan2(Num(-1), Num(0))

AngleNeg(a) == [a EXCEPT !.y = RNeg(a.y)]

\* the sum of two "atan2" angles, as a direction
AngleAdd(a, b) ==
    Atan2(RAdd(RMul(a.y, b.x), RMul(a.x, b.y)), RSub(RMul(a.x, b.x), RMul(a.y, b.y)))

\* get_euler_angles with the two signs of the degenerate branch exchanged
get_euler_angles_signs_exchanged(self) ==
    LET R == self.transformation_matrix_vBvvB
    IN  IF RAbs(At(R, 2, 0)) # Num(1)
        THEN LET theta_1 == AngleNeg(Asin(At(R, 2, 0)))
                 psi_1   == Atan2(At(R, 2, 1), At(R, 2, 2))
                 phi_1   == Atan2(At(R, 1, 0), At(R, 0, 0))
             IN  <<psi_1, theta_1, phi_1>>
        ELSE LET phi_1 == ZeroAngle
             IN  IF At(R, 2, 0) = Num(1)
                 THEN <<AngleAdd(phi_1, Atan2(At(R, 0, 1), At(R, 0, 2))), HalfPi, phi_1>>
                 ELSE <<AngleAdd(AngleNeg(phi_1), Atan2(RNeg(At(R, 0, 1)), RNeg(At(R, 0, 2)))),
                        MinusHalfPi, phi_1>>

get_euler_angles(self) ==
    LET R == self.transformation_matrix_vBvvB
    IN  IF RAbs(At(R, 2, 0)) # Num(1)
        THEN \* cos(theta_1) > 0 here, and atan2(y / c, x / c) = atan2(y, x) for c > 0;
             \* the second solution (theta_2, psi_2, phi_2) is computed and dropped
             LET theta_1 == AngleNeg(Asin(At(R, 2, 0)))
                 psi_1   == Atan2(At(R, 2, 1), At(R, 2, 2))
                 phi_1   == Atan2(At(R, 1, 0), At(R, 0, 0))
             IN  <<psi_1, theta_1, phi_1>>
        ELSE LET phi_1 == ZeroAngle
             IN  IF At(R, 2, 0) = Num(-1)
                 THEN <<AngleAdd(phi_1, Atan2(At(R, 0, 1), At(R, 0, 2))), HalfPi, phi_1>>
                 ELSE <<AngleAdd(AngleNeg(phi_1), Atan2(RNeg(At(R, 0, 1)), RNeg(At(R, 0, 2)))),
                        MinusHalfPi, phi_1>>

(***************************************************************************)
(* Inputs                                                                  *)
(***************************************************************************)
MaxLen == 2

Angle(c, s) == [c |-> c, s |-> s]

A0 == Angle(Num(1), Num(0))

A37 == Angle(Rat(4, 5), Rat(3, 5))

A53 == Angle(Rat(3, 5), Rat(4, 5))

A90 == Angle(Num(0), Num(1))

A180 == Angle(Num(-1), Num(0))

Geometry(zenith, azimuth, magnetic_field_vector, site, declination) ==
    [ zenith |-> zenith, azimuth |-> azimuth, magnetic_field_vector |-> magnetic_field_vector,
      site |-> site, declination |-> declination ]

\* The constructions explored: an inclined shower in a tilted field (every matrix
\* entry non-zero), the same in a vertical field, a vertical shower with the field
\* looked up by site, horizontal showers along -x, +x (R[2,0] = 1, -1) and askew
\* (M[2,2] = 0), and a vertical shower parallel to a vertical field.
Geometries ==
    { Geometry(A37, A53, <<Num(0), Num(3), Num(-4)>>, None, A37),
      Geometry(A37, A53, <<Num(0), Num(0), Num(-2)>>, None, A0),
      Geometry(A0, A0, None, "auger", A0),
      Geometry(A0, A53, None, "lofar", A37),
      Geometry(A90, A180, <<Num(0), Num(0), Num(-2)>>, None, A0),
      Geometry(A90, A0, <<Num(0), Num(3), Num(-4)>>, None, A37),
      Geometry(A90, A53, <<Num(0), Num(0), Num(-2)>>, None, A37),
      Geometry(A0, A0, <<Num(0), Num(0), Num(-2)>>, None, A0) }

Castings == { "same_kind", "unsafe" }

\* The bases the code normalises have rational lengths for these inputs, so that
\* the model's square roots are exact.
ExactNorms(zenith, azimuth, field) ==
    LET showeraxis == VScale(Num(-1), spherical_to_cartesian(zenith, azimuth))
        vxB        == cross(showeraxis, VDivS(field, norm(field)))
    IN  IsSquare(ScaledSquare(field)) /\ IsSquare(ScaledSquare(vxB))

Station(i) == << Num(i), Num(2 - i), Num(i * i - 1) >>

Half(v) == [i \in 1..Len(v) |-> RDiv(v[i], Num(2))]

Stations(n, dtype) ==
    Arr(dtype, 2, [i \in 1..n |-> IF dtype = "int" THEN Station(i) ELSE Half(Station(i))])

Positions3 ==
    { Arr("int", 1, <<Num(1), Num(2), Num(2)>>),
      Arr("float", 1, <<Rat(3, 2), Num(-4), Num(0)>>) }
    \cup { Stations(n, dtype) : n \in 1..MaxLen, dtype \in {"int", "float"} }

XY(a) ==
    IF a.ndim = 1 THEN Arr(a.dtype, 1, <<a.data[1], a.data[2]>>)
    ELSE Arr(a.dtype, 2, [i \in 1..Len(a.data) |-> <<a.data[i][1], a.data[i][2]>>])

Positions2 == { XY(a) : a \in Positions3 }

Cores ==
    { NoneArr,
      Arr("int", 1, <<Num(1), Num(-1), Num(2)>>),
      Arr("float", 1, <<Rat(1, 2), Num(0), Num(1)>>) }

(***************************************************************************)
(* State                                                                   *)
(***************************************************************************)
VARIABLES
    geometry,       \* the constructor's arguments (the object does not keep them)
    numpy_casting,  \* the casting rule of the numpy build for in-place operations
    self,           \* the cstrafo object: its six cached matrices
    call,           \* the last call: arguments, result, the caller's arrays after it
    prev            \* the call whose result the last call was given, if any

vars == <<geometry, numpy_casting, self, call, prev>>

NoPrev == [op |-> "none", station_position |-> NoneArr, core |-> NoneArr]

Call(op, station_position, core, outcome) ==
    [ op |-> op, station_position |-> station_position, core |-> core,
      after_position |-> outcome.station_position, after_core |-> outcome.core,
      result |-> outcome.result ]

Construct(g) == cstrafo(g.zenith, g.azimuth, g.magnetic_field_vector, g.site, g.declination)

Init ==
    \E g \in Geometries, casting \in Castings :
        /\ ExactNorms(g.zenith, g.azimuth, ResolveField(g.magnetic_field_vector, g.site))
        /\ geometry = g
        /\ numpy_casting = casting
        /\ self = Construct(g)
        /\ call = Call("__init__", NoneArr, NoneArr, Outcome(NoneArr, NoneArr, NoneArr))
        /\ prev = NoPrev

\* The caller passes a fresh array or the array the last call returned.  To relate
\* a call to the one whose result it was given, prev holds that earlier call; the
\* model follows a returned array through one further call and ends the run there
\* (what a later call does depends on self and its own arguments alone).
Chainable == IsArray(call.result)

Given(fresh) == fresh \cup (IF Chainable THEN {call.result} ELSE {})

Remember(station_position, fresh) ==
    IF station_position \in fresh THEN NoPrev
    ELSE [op |-> call.op, station_position |-> call.station_position, core |-> call.core]

\* a transform_from_vxB_vxvxB that stores the matrix it used as the forward matrix
SelfAfter_overwritten(obj, op) ==
    IF op = "transform_from_vxB_vxvxB"
    THEN [obj EXCEPT !.transformation_matrix_vBvvB = obj.inverse_transformation_matrix_vBvvB]
    ELSE obj

\* The object after a call.  No method assigns an attribute or writes into a
\* matrix: np.dot and np.asarray of its result build new arrays, and the in-place
\* operations act on those or on the copy of the argument.
SelfAfter(obj, op) == obj

Does(op, station_position, core, outcome, fresh) ==
    /\ prev.op = "none"
    /\ call' = Call(op, station_position, core, outcome)
    /\ prev' = Remember(station_position, fresh)
    /\ self' = SelfAfter(self, op)
    /\ UNCHANGED <<geometry, numpy_casting>>

Pure(station_position, result) == Outcome(result, station_position, NoneArr)

GroundToOnsky ==
    \E positions \in Given(Positions3) :
        Does("transform_from_ground_to_onsky", positions, NoneArr,
             Pure(positions, transform_from_ground_to_onsky(self, positions)), Positions3)

OnskyToGround ==
    \E positions \in Given(Positions3) :
        Does("transform_from_onsky_to_ground", positions, NoneArr,
             Pure(positions, transform_from_onsky_to_ground(self, positions)), Positions3)

MagneticToGeographic ==
    \E positions \in Given(Positions3) :
        Does("transform_from_magnetic_to_geographic", positions, NoneArr,
             Pure(positions, transform_from_magnetic_to_geographic(self, positions)), Positions3)

GeographicToMagnetic ==
    \E positions \in Given(Positions3) :
        Does("transform_from_geographic_to_magnetic", positions, NoneArr,
             Pure(positions, transform_from_geographic_to_magnetic(self, positions)), Positions3)

ToVxB ==
    \E station_position \in Given(Positions3), core \in Cores :
        Does("transform_to_vxB_vxvxB", station_position, core,
             transform_to_vxB_vxvxB(self, station_position, core, numpy_casting), Positions3)

FromVxB ==
    \E station_position \in Given(Positions3), core \in Cores :
        Does("transform_from_vxB_vxvxB", station_position, core,
             transform_from_vxB_vxvxB(self, station_position, core), Positions3)

FromVxB2D ==
    \E station_position \in Given(Positions2), core \in Cores :
        Does("transform_from_vxB_vxvxB_2D", station_position, core,
             transform_from_vxB_vxvxB_2D(self, station_position, core), Positions2)

\* x and y are the first two entries of the vector the caller holds
GetHeight ==
    \E xy \in { a \in Given(Positions2) : a.ndim = 1 } :
        Does("get_height_in_showerplane", xy, NoneArr,
             Pure(xy, Arr("float", 0, <<get_height_in_showerplane(self, xy.data[1], xy.data[2])>>)),
             Positions2)

GetEulerAngles ==
    Does("get_euler_angles", NoneArr, NoneArr,
         Pure(NoneArr, Arr("euler", 0, get_euler_angles(self))), {NoneArr})

Next ==
    \/ GroundToOnsky
    \/ OnskyToGround
    \/ MagneticToGeographic
    \/ GeographicToMagnetic
    \/ ToVxB
    \/ FromVxB
    \/ FromVxB2D
    \/ GetHeight
    \/ GetEulerAngles

Spec == Init /\ [][Next]_vars

(***************************************************************************)
(* Vocabulary of the properties                                            *)
(***************************************************************************)
ForwardM == self.transformation_matrix_vBvvB

ShowerAxis == VScale(Num(-1), spherical_to_cartesian(geometry.zenith, geometry.azimuth))

\* the shower axis is parallel to the field: the vBvvB basis is undefined (all nan)
Parallel ==
    cross(ShowerAxis, ResolveField(geometry.magnetic_field_vector, geometry.site))
        = <<Num(0), Num(0), Num(0)>>

Rows(a) == IF a.ndim = 1 THEN <<a.data>> ELSE a.data

\* the same shape and the same numbers (an int array equals the float array of its values)
SameValues(a, b) == a.ndim = b.ndim /\ a.data = b.data

CoreVec(core) == IF core = NoneArr THEN <<Num(0), Num(0), Num(0)>> ELSE core.data

Orthonormal(M, Minv) == MatMul(M, Transpose(M)) = Identity /\ Minv = Transpose(M)

TransformOps ==
    { "transform_from_ground_to_onsky", "transform_from_onsky_to_ground",
      "transform_from_magnetic_to_geographic", "transform_from_geographic_to_magnetic",
      "transform_to_vxB_vxvxB", "transform_from_vxB_vxvxB", "transform_from_vxB_vxvxB_2D" }

\* what operation op returns for one argument
Apply(op, station_position, core) ==
    CASE op = "transform_from_ground_to_onsky" -> transform_from_ground_to_onsky(self, station_position)
      [] op = "transform_from_onsky_to_ground" -> transform_from_onsky_to_ground(self, station_position)
      [] op = "transform_from_magnetic_to_geographic" -> transform_from_magnetic_to_geographic(self, station_position)
      [] op = "transform_from_geographic_to_magnetic" -> transform_from_geographic_to_magnetic(self, station_position)
      [] op = "transform_to_vxB_vxvxB" -> transform_to_vxB_vxvxB(self, station_position, core, numpy_casting).result
      [] op = "transform_from_vxB_vxvxB" -> transform_from_vxB_vxvxB(self, station_position, core).result
      [] op = "transform_from_vxB_vxvxB_2D" -> transform_from_vxB_vxvxB_2D(self, station_position, core).result

Single(a, i) == Arr(a.dtype, 1, Rows(a)[i])

AllFloat == call.station_position.dtype # "int" /\ prev.station_position.dtype # "int"

(***************************************************************************)
(* C1                                                                      *)
(***************************************************************************)
RoundTrips ==
    /\ call.op = "transform_to_vxB_vxvxB" => IsArray(call.result)
    /\ prev.op = "transform_from_ground_to_onsky" /\ call.op = "transform_from_onsky_to_ground"
           => SameValues(call.result, prev.station_position)
    /\ prev.op = "transform_from_magnetic_to_geographic"
         /\ call.op = "transform_from_geographic_to_magnetic"
           => SameValues(call.result, prev.station_position)
    /\ prev.op = "transform_to_vxB_vxvxB" /\ call.op = "transform_from_vxB_vxvxB"
         /\ call.core = prev.core
           => SameValues(call.result, prev.station_position)

\* C1: unless the shower axis is parallel to the field, each forward/inverse pair
\* returns its input: ground -> on-sky -> ground, magnetic -> geographic -> magnetic,
\* and to_vxB_vxvxB -> from_vxB_vxvxB with the same core (or none) in both calls.
C1_RoundTrip == ~Parallel => RoundTrips

\* The round trips on float arrays (what C1 comes to without the integer arrays).
RoundTripFloat == ~Parallel /\ AllFloat => RoundTrips

(***************************************************************************)
(* C2                                                                      *)
(***************************************************************************)
\* the case the 2D claims are about: a 2D reconstruction by a transformer whose
\* basis is defined and whose plane equation can be solved (M[2,2] # 0)
Reconstructed ==
    /\ call.op = "transform_from_vxB_vxvxB_2D"
    /\ ~Parallel
    /\ At(ForwardM, 2, 2) # Num(0)

\* e3 . (point - core), e3 the third row of the forward matrix
AlongE3(point, core) == Dot3(ForwardM[3], VSub(point, CoreVec(core)))

\* C2 as stated: the point transform_from_vxB_vxvxB_2D returns lies on the shower
\* plane through core, e3 . (point - core) = 0.
C2_OnShowerPlane ==
    Reconstructed =>
        \A i \in 1..Len(Rows(call.result)) :
            AlongE3(Rows(call.result)[i], call.core) = Num(0)

\* C2 amended: e3 . (point - core) is the height get_height_in_showerplane(x, y)
\* the operation inferred, which is 0 exactly when M[0,2]*x + M[1,2]*y = 0.
C2_HeightAlongE3 ==
    Reconstructed =>
        \A i \in 1..Len(Rows(call.result)) :
            LET x == Rows(call.station_position)[i][1]
                y == Rows(call.station_position)[i][2]
                d == AlongE3(Rows(call.result)[i], call.core)
            IN  /\ d = get_height_in_showerplane(self, x, y)
                /\ d = Num(0) <=> RAdd(RMul(At(ForwardM, 0, 2), x), RMul(At(ForwardM, 1, 2), y)) = Num(0)

\* a sequence reconstructed about a core, its first point off the shower plane
C2_Witness ==
    /\ Reconstructed
    /\ call.core # NoneArr
    /\ call.station_position.ndim = 2
    /\ AlongE3(Rows(call.result)[1], call.core) # Num(0)

(***************************************************************************)
(* C3                                                                      *)
(***************************************************************************)
\* get_height_in_showerplane was given x, y of (x, y, z) = transform_to_vxB_vxvxB(p)
HeightOfTransformed ==
    /\ call.op = "get_height_in_showerplane"
    /\ prev.op = "transform_to_vxB_vxvxB"
    /\ prev.core = NoneArr
    /\ ~Parallel
    /\ At(ForwardM, 2, 2) # Num(0)

\* C3 as stated: for any ground-frame point p, get_height_in_showerplane(x, y)
\* returns the third shower-plane coordinate z of p.
C3_HeightRecoversZ ==
    HeightOfTransformed => call.result.data[1] = call.station_position.data[3]

\* C3 amended: it returns z - p[2] / M[2,2], so it returns z for the points p whose
\* third ground coordinate is 0.
C3_HeightOfGroundPoint ==
    HeightOfTransformed =>
        /\ call.result.data[1] =
               RSub(call.station_position.data[3],
                    RDiv(prev.station_position.data[3], At(ForwardM, 2, 2)))
        /\ prev.station_position.data[3] = Num(0)
               => call.result.data[1] = call.station_position.data[3]

\* a point of the ground plane with a non-zero shower-plane height, recovered
C3_Witness ==
    /\ HeightOfTransformed
    /\ prev.station_position.data[3] = Num(0)
    /\ call.station_position.data[3] # Num(0)
    /\ call.result.data[1] = call.station_position.data[3]

(***************************************************************************)
(* C4                                                                      *)
(***************************************************************************)
\* C4 as stated: with R[2,0] = 1, get_euler_angles returns phi_1 = 0 and
\* theta_1 = +pi/2.
C4_GimbalPlusHalfPi ==
    call.op = "get_euler_angles" /\ At(ForwardM, 2, 0) = Num(1)
        => call.result.data[3] = ZeroAngle /\ call.result.data[2] = HalfPi

\* C4 amended: with R[2,0] = 1 it returns phi_1 = 0 and theta_1 = -pi/2; theta_1 is
\* +pi/2 when R[2,0] = -1.
C4_GimbalBySign ==
    call.op = "get_euler_angles" =>
        /\ At(ForwardM, 2, 0) = Num(1)
               => call.result.data[3] = ZeroAngle /\ call.result.data[2] = MinusHalfPi
        /\ At(ForwardM, 2, 0) = Num(-1)
               => call.result.data[3] = ZeroAngle /\ call.result.data[2] = HalfPi

\* the Euler angles of a matrix with R[2,0] = 1
C4_Witness ==
    /\ call.op = "get_euler_angles"
    /\ At(ForwardM, 2, 0) = Num(1)
    /\ call.result.data[2] = MinusHalfPi

(***************************************************************************)
(* C5                                                                      *)
(***************************************************************************)
\* C5: every transform mirrors the shape of its input, one 3-vector for one vector
\* and N vectors for N, the i-th being the transform of the i-th input.
C5_ShapeMirrored ==
    call.op \in TransformOps =>
        /\ IsArray(call.result)
        /\ call.result.ndim = call.station_position.ndim
        /\ Len(Rows(call.result)) = Len(Rows(call.station_position))
        /\ \A i \in 1..Len(Rows(call.result)) :
               /\ Len(Rows(call.result)[i]) = 3
               /\ Rows(call.result)[i] = Apply(call.op, Single(call.station_position, i), call.core).data

\* The same on float arrays.
ShapeMirroredFloat == AllFloat => C5_ShapeMirrored

(***************************************************************************)
(* C6                                                                      *)
(***************************************************************************)
\* C6: unless the shower axis is parallel to the field, each of the three forward
\* matrices times its transpose is the identity, and its cached inverse is its
\* transpose.
C6_Orthonormal ==
    ~Parallel =>
        /\ Orthonormal(self.transformation_matrix_vBvvB, self.inverse_transformation_matrix_vBvvB)
        /\ Orthonormal(self.transformation_matrix_onsky, self.inverse_transformation_matrix_onsky)
        /\ Orthonormal(self.transformation_matrix_magnetic, self.inverse_transformation_matrix_magnetic)

\* a construction with no zero entry in the vBvvB matrix and a rotated magnetic frame
C6_Witness ==
    /\ call.op = "__init__"
    /\ ~Parallel
    /\ \A i \in 1..3 : \A j \in 1..3 : ForwardM[i][j] # Num(0)
    /\ self.transformation_matrix_magnetic # Identity

(***************************************************************************)
(* C7                                                                      *)
(***************************************************************************)
e_r(zenith, azimuth) ==
    << RMul(Sin(zenith), Cos(azimuth)), RMul(Sin(zenith), Sin(azimuth)), Cos(zenith) >>

e_theta(zenith, azimuth) ==
    << RMul(Cos(zenith), Cos(azimuth)), RMul(Cos(zenith), Sin(azimuth)), RNeg(Sin(zenith)) >>

e_phi(zenith, azimuth) == << RNeg(Sin(azimuth)), Cos(azimuth), Num(0) >>

\* C7: the rows of the on-sky matrix are e_theta, e_phi, e_r in this order, so that
\* transform_from_ground_to_onsky(p) is (p . e_theta, p . e_phi, p . e_r).
C7_OnskyRowOrder ==
    /\ self.transformation_matrix_onsky =
           << e_theta(geometry.zenith, geometry.azimuth),
              e_phi(geometry.zenith, geometry.azimuth),
              e_r(geometry.zenith, geometry.azimuth) >>
    /\ call.op = "transform_from_ground_to_onsky" /\ call.station_position.ndim = 1
           => call.result.data =
                  << Dot3(call.station_position.data, e_theta(geometry.zenith, geometry.azimuth)),
                     Dot3(call.station_position.data, e_phi(geometry.zenith, geometry.azimuth)),
                     Dot3(call.station_position.data, e_r(geometry.zenith, geometry.azimuth)) >>

\* What the code builds: the rows e_r, e_theta, e_phi.
OnskyRowsAsBuilt ==
    self.transformation_matrix_onsky =
        << e_r(geometry.zenith, geometry.azimuth),
           e_theta(geometry.zenith, geometry.azimuth),
           e_phi(geometry.zenith, geometry.azimuth) >>

(***************************************************************************)
(* C8                                                                      *)
(***************************************************************************)
\* C8: with a core, transform_to_vxB_vxvxB returns the forward matrix applied to
\* (position - core) for each position and leaves the caller's position and core
\* as they were.
C8_CoreSubtracted ==
    call.op = "transform_to_vxB_vxvxB" /\ call.core # NoneArr =>
        /\ IsArray(call.result)
        /\ call.result.ndim = call.station_position.ndim
        /\ Len(Rows(call.result)) = Len(Rows(call.station_position))
        /\ \A i \in 1..Len(Rows(call.result)) :
               Rows(call.result)[i] =
                   MatVec(ForwardM, VSub(Rows(call.station_position)[i], call.core.data))
        /\ call.after_position = call.station_position
        /\ call.after_core = call.core

\* The same on float positions.
CoreSubtractedFloat == AllFloat => C8_CoreSubtracted

\* The part of C8 about the caller's arrays, for every dtype: the subtraction acts on
\* the copy.
CallerArraysUntouched ==
    call.op = "transform_to_vxB_vxvxB"
        => call.after_position = call.station_position /\ call.after_core = call.core

(***************************************************************************)
(* C9                                                                      *)
(***************************************************************************)
\* C9: after any calls the six cached matrices are those the constructor built.
C9_MatricesAsConstructed == self = Construct(geometry)

\* a call on the array an earlier call returned
C9_Witness == prev.op # "none" /\ call.op \in TransformOps /\ self = Construct(geometry)

(***************************************************************************)
(* C10                                                                     *)
(***************************************************************************)
\* C10: the point transform_from_vxB_vxvxB_2D returns has the third ground
\* coordinate of core (0 without a core), given M[2,2] # 0.
C10_OnGroundPlane ==
    Reconstructed =>
        \A i \in 1..Len(Rows(call.result)) :
            Rows(call.result)[i][3] = CoreVec(call.core)[3]

\* a point reconstructed with a non-zero height about a core off the plane z = 0
C10_Witness ==
    /\ Reconstructed
    /\ call.core # NoneArr
    /\ get_height_in_showerplane(self, Rows(call.station_position)[1][1],
                                 Rows(call.station_position)[1][2]) # Num(0)
    /\ Rows(call.result)[1][3] = call.core.data[3]
    /\ call.core.data[3] # Num(0)
=============================================================================
